---------------------------- MODULE Spec2Model ----------------------------
(***************************************************************************)
(* A model of the banana front end: source text -> parse_statements ->     *)
(* Program of span-localized Functions -> name/arity checks -> diagnostics, *)
(* driven by main's loop (set_text, compile, accumulated, take_logs) over  *)
(* an incremental query database.                                          *)
(*                                                                         *)
(* Source text is a sequence of lexemes (whitespace lexemes included), so  *)
(* that byte offsets are the real ones: the offset of a lexeme is the sum  *)
(* of the lengths of the lexemes before it.                                *)
(***************************************************************************)
EXTENDS Integers, Sequences, FiniteSets, TLC

(***************************************************************************)
(* Bounds of the model.                                                    *)
(***************************************************************************)
\* the largest number of statements of a file main is run on
MaxStmts == 2
\* the largest number of statements of a text parse_string is run on
MaxParserStmts == 3
\* the largest number of statements of a file whose checks are examined
MaxCheckerStmts == 3
\* the largest number of binary operators of a generated expression
MaxOps == 3
\* the largest number of compile calls between two set_text calls
MaxCompiles == 2

(***************************************************************************)
(* Source texts.  A statement is its lexemes; a file is a sequence of      *)
(* statements, read as text with one space between statements.             *)
(***************************************************************************)
\* "fn f(x) = x;"
FnF == <<"fn", " ", "f", "(", "x", ")", " ", "=", " ", "x", ";">>
\* "fn f(x) = x + y;"   the same f with another body (y is undefined)
FnFEdited == <<"fn", " ", "f", "(", "x", ")", " ", "=", " ", "x", " ", "+", " ", "y", ";">>
\* "fn g() = f(1, 2);"  calls f with two arguments
FnG == <<"fn", " ", "g", "(", ")", " ", "=", " ", "f", "(", "1", ",", " ", "2", ")", ";">>
\* "fn h() = k();"      calls k, which nothing defines
FnH == <<"fn", " ", "h", "(", ")", " ", "=", " ", "k", "(", ")", ";">>
\* "print 1 + 2 * 3 + 4;"
PrintPrecedence == <<"print", " ", "1", " ", "+", " ", "2", " ", "*", " ", "3", " ", "+", " ", "4", ";">>
\* "print 1 + + 2"      the text of the parse_error test
PrintError == <<"print", " ", "1", " ", "+", " ", "+", " ", "2">>
\* "print 1 @ 2;"       a character no token starts with
PrintInvalid == <<"print", " ", "1", " ", "@", " ", "2", ";">>
\* "print f(1"          the text ends inside a call
PrintEof == <<"print", " ", "f", "(", "1">>

\* "fn f() = f(1);"          a second f, without parameters, that calls f
FnFRecursive == <<"fn", " ", "f", "(", ")", " ", "=", " ", "f", "(", "1", ")", ";">>
\* "fn h(x) = k(f(x), y);"   a call of the undefined k with a call and a variable as arguments
FnHNested == <<"fn", " ", "h", "(", "x", ")", " ", "=", " ", "k", "(", "f", "(", "x", ")", ",", " ",
               "y", ")", ";">>
\* "fn g() = f(y, k());"     two arguments for f: an undefined variable and an undefined call
FnGArguments == <<"fn", " ", "g", "(", ")", " ", "=", " ", "f", "(", "y", ",", " ", "k", "(", ")",
                  ")", ";">>
\* "fn g(y) = f(y) * f(x);"  one argument for f, the second one an undefined variable
FnGProduct == <<"fn", " ", "g", "(", "y", ")", " ", "=", " ", "f", "(", "y", ")", " ", "*", " ",
                "f", "(", "x", ")", ";">>

EngineStatements == {FnF, FnFEdited, FnG, FnH, PrintError}
ParserStatements ==
    EngineStatements \cup {PrintPrecedence, PrintInvalid, PrintEof, FnHNested, FnGProduct}

SeqsUpTo(S, n) == UNION {[1..k -> S] : k \in 0..n}

\* the files main's loop is run on
EngineFiles == SeqsUpTo(EngineStatements, MaxStmts)

\* the files whose checks are examined one by one
CheckerStatements == {FnF, FnFRecursive, FnG, FnH, FnHNested, FnGArguments, FnGProduct}
CheckerFiles == SeqsUpTo(CheckerStatements, MaxCheckerStmts)

\* "print 1 <op> 2 <op> 3 ...;" for a sequence of operators
NumberLexemes == <<"1", "2", "3", "4", "5", "6">>
RECURSIVE OperandTail(_, _)
OperandTail(ops, i) ==
    IF i > Len(ops) THEN <<>>
    ELSE <<" ", ops[i], " ", NumberLexemes[((i) % Len(NumberLexemes)) + 1]>> \o OperandTail(ops, i + 1)
ExpressionStatement(ops) == <<"print", " ", NumberLexemes[1]>> \o OperandTail(ops, 1) \o <<";">>
OperatorLexemes == {"+", "-", "*", "/"}
ExpressionFiles == {<<ExpressionStatement(ops)>> : ops \in SeqsUpTo(OperatorLexemes, MaxOps)}

\* the files parse_string is run on
ParserFiles == SeqsUpTo(ParserStatements, MaxParserStmts) \cup ExpressionFiles

RECURSIVE ReadFrom(_, _)
ReadFrom(file, i) ==
    IF i > Len(file) THEN <<>>
    ELSE (IF i > 1 THEN <<" ">> ELSE <<>>) \o file[i] \o ReadFrom(file, i + 1)
\* the text read from a file
Read(file) == ReadFrom(file, 1)

RECURSIVE TextLen(_)
TextLen(text) == IF text = <<>> THEN 0 ELSE Len(Head(text)) + TextLen(Tail(text))

\* the byte offset at which statement i of a file starts
StatementOffset(file, i) == TextLen(Read(SubSeq(file, 1, i - 1))) + (IF i > 1 THEN 1 ELSE 0)

(***************************************************************************)
(* The grammar engine: lexemes to tokens with absolute byte offsets, then  *)
(* a parse to statements with absolute spans or to the first error.        *)
(***************************************************************************)
Keywords == {"fn", "print"}
Punctuation == {"(", ")", ",", "=", ";", "+", "-", "*", "/"}
IdentifierOrder == <<"f", "g", "h", "k", "x", "y">>
Identifiers == {IdentifierOrder[i] : i \in 1..Len(IdentifierOrder)}
NumberValue == [l \in {NumberLexemes[i] : i \in 1..Len(NumberLexemes)} |->
                  CHOOSE i \in 1..Len(NumberLexemes) : NumberLexemes[i] = l]

TokenKind(lexeme) ==
    IF lexeme \in Keywords \cup Punctuation THEN lexeme
    ELSE IF lexeme \in Identifiers THEN "Ident"
    ELSE IF lexeme \in DOMAIN NumberValue THEN "Number"
    ELSE "Invalid"

RECURSIVE TokenizeFrom(_, _, _)
TokenizeFrom(text, i, offset) ==
    IF i > Len(text)
    THEN <<[kind |-> "EOF", lexeme |-> "", start |-> offset, end |-> offset]>>
    ELSE IF text[i] = " "
    THEN TokenizeFrom(text, i + 1, offset + 1)
    ELSE <<[kind |-> TokenKind(text[i]), lexeme |-> text[i],
            start |-> offset, end |-> offset + Len(text[i])]>>
         \o TokenizeFrom(text, i + 1, offset + Len(text[i]))
Tokenize(text) == TokenizeFrom(text, 1, 0)

\* DefId::unknown, the identity every span carries as it leaves the grammar
DefIdUnknown == <<"Unknown">>
\* DefId::new(db, DefIdData::Function(name))
DefIdFunction(name) == <<"Function", name>>

Span(id, start, end) == [id |-> id, start |-> start, end |-> end]
Expression(span, data) == [span |-> span, data |-> data]

Parsed(node, pos) == [ok |-> TRUE, node |-> node, pos |-> pos]
\* the error of the first token no rule accepts
Unexpected(tok) ==
    [ok |-> FALSE,
     error |-> CASE tok.kind = "EOF" -> [kind |-> "UnrecognizedEof", start |-> tok.start, end |-> tok.start]
                 [] tok.kind = "Invalid" -> [kind |-> "InvalidToken", start |-> tok.start, end |-> tok.start]
                 [] OTHER -> [kind |-> "UnrecognizedToken", start |-> tok.start, end |-> tok.end]]

OpOf(lexeme) ==
    CASE lexeme = "+" -> "Add"
      [] lexeme = "-" -> "Subtract"
      [] lexeme = "*" -> "Multiply"
      [] lexeme = "/" -> "Divide"

OpExpression(l, lexeme, r) ==
    Expression(Span(DefIdUnknown, l.span.start, r.span.end),
               [tag |-> "Op", left |-> l, op |-> OpOf(lexeme), right |-> r])

None == <<>>

RECURSIVE ParseExprLoop(_, _, _, _), ParseTermLoop(_, _, _, _), ParseFactor(_, _), ParseCallArgs(_, _, _)

\* left <op> r, or r alone for the first operand
Operand(left, lexeme, r) == IF lexeme = "" THEN r ELSE OpExpression(left, lexeme, r)

\* a call expression from its name token and its parsed arguments
CallOf(toks, t, a) ==
    IF ~a.ok THEN a
    ELSE Parsed(Expression(Span(DefIdUnknown, t.start, toks[a.pos].end),
                           [tag |-> "Call", name |-> t.lexeme, args |-> a.node]),
                a.pos + 1)

\* Factor := Number | Ident | Ident "(" [Expr ("," Expr)*] ")"
ParseFactor(toks, i) ==
    CASE toks[i].kind = "Number" ->
           Parsed(Expression(Span(DefIdUnknown, toks[i].start, toks[i].end),
                             [tag |-> "Number", value |-> NumberValue[toks[i].lexeme]]), i + 1)
      [] toks[i].kind = "Ident" /\ toks[i + 1].kind = "(" ->
           CallOf(toks, toks[i],
                  IF toks[i + 2].kind = ")" THEN Parsed(<<>>, i + 2)
                  ELSE ParseCallArgs(toks, i + 2, <<>>))
      [] toks[i].kind = "Ident" ->
           Parsed(Expression(Span(DefIdUnknown, toks[i].start, toks[i].end),
                             [tag |-> "Variable", name |-> toks[i].lexeme]), i + 1)
      [] OTHER -> Unexpected(toks[i])

\* a variant of TermStep that takes + and - for operators of a Term
TermStepAnyOperator(toks, node) ==
    IF ~node.ok THEN node
    ELSE IF toks[node.pos].kind \in {"*", "/", "+", "-"}
    THEN ParseTermLoop(toks, node.pos + 1, node.node, toks[node.pos].lexeme)
    ELSE node

\* Term := Factor (("*" | "/") Factor)*, grouped to the left
TermStep(toks, node) ==
    IF ~node.ok THEN node
    ELSE IF toks[node.pos].kind \in {"*", "/"}
    THEN ParseTermLoop(toks, node.pos + 1, node.node, toks[node.pos].lexeme)
    ELSE node
TermOperand(left, lexeme, r) ==
    IF ~r.ok THEN r ELSE Parsed(Operand(left, lexeme, r.node), r.pos)
ParseTermLoop(toks, i, left, lexeme) ==
    TermStep(toks, TermOperand(left, lexeme, ParseFactor(toks, i)))
ParseTerm(toks, i) == ParseTermLoop(toks, i, None, "")

\* Expr := Term (("+" | "-") Term)*, grouped to the left
ExprStep(toks, node) ==
    IF ~node.ok THEN node
    ELSE IF toks[node.pos].kind \in {"+", "-"}
    THEN ParseExprLoop(toks, node.pos + 1, node.node, toks[node.pos].lexeme)
    ELSE node
ParseExprLoop(toks, i, left, lexeme) ==
    ExprStep(toks, TermOperand(left, lexeme, ParseTerm(toks, i)))
ParseExpr(toks, i) == ParseExprLoop(toks, i, None, "")

\* the arguments of a call up to, not including, the closing parenthesis
AfterArg(toks, acc, e) ==
    IF ~e.ok THEN e
    ELSE CASE toks[e.pos].kind = "," -> ParseCallArgs(toks, e.pos + 1, Append(acc, e.node))
           [] toks[e.pos].kind = ")" -> Parsed(Append(acc, e.node), e.pos)
           [] OTHER -> Unexpected(toks[e.pos])
ParseCallArgs(toks, i, acc) == AfterArg(toks, acc, ParseExpr(toks, i))

\* the parameter names of a definition up to, not including, the closing parenthesis
RECURSIVE ParseParams(_, _, _)
ParseParams(toks, i, acc) ==
    IF toks[i].kind # "Ident" THEN Unexpected(toks[i])
    ELSE CASE toks[i + 1].kind = "," -> ParseParams(toks, i + 2, Append(acc, toks[i].lexeme))
           [] toks[i + 1].kind = ")" -> Parsed(Append(acc, toks[i].lexeme), i + 1)
           [] OTHER -> Unexpected(toks[i + 1])

\* FunctionData::new(name_span, args, body)
FunctionData(name_span, args, body) == [name_span |-> name_span, args |-> args, body |-> body]

\* "fn" Ident "(" [Ident ("," Ident)*] ")" "=" Expr ";"
FunctionOf(toks, i, p, b) ==
    IF ~b.ok THEN b
    ELSE IF toks[b.pos].kind # ";" THEN Unexpected(toks[b.pos])
    ELSE Parsed([span |-> Span(DefIdUnknown, toks[i].start, toks[b.pos].end),
                 data |-> [tag |-> "Function",
                           name |-> toks[i + 1].lexeme,
                           data |-> FunctionData(
                               Span(DefIdUnknown, toks[i + 1].start, toks[i + 1].end),
                               p.node, b.node)]],
                b.pos + 1)
FunctionBody(toks, i, p) ==
    IF ~p.ok THEN p
    ELSE IF toks[p.pos + 1].kind # "=" THEN Unexpected(toks[p.pos + 1])
    ELSE FunctionOf(toks, i, p, ParseExpr(toks, p.pos + 2))
ParseFunction(toks, i) ==
    IF toks[i + 1].kind # "Ident" THEN Unexpected(toks[i + 1])
    ELSE IF toks[i + 2].kind # "(" THEN Unexpected(toks[i + 2])
    ELSE FunctionBody(toks, i,
                      IF toks[i + 3].kind = ")" THEN Parsed(<<>>, i + 3)
                      ELSE ParseParams(toks, i + 3, <<>>))

\* "print" Expr ";"
PrintOf(toks, i, e) ==
    IF ~e.ok THEN e
    ELSE IF toks[e.pos].kind # ";" THEN Unexpected(toks[e.pos])
    ELSE Parsed([span |-> Span(DefIdUnknown, toks[i].start, toks[e.pos].end),
                 data |-> [tag |-> "Print", expr |-> e.node]],
                e.pos + 1)
ParsePrint(toks, i) == PrintOf(toks, i, ParseExpr(toks, i + 1))

ParseStatement(toks, i) ==
    CASE toks[i].kind = "fn" -> ParseFunction(toks, i)
      [] toks[i].kind = "print" -> ParsePrint(toks, i)
      [] OTHER -> Unexpected(toks[i])

\* Program := Statement*
RECURSIVE ParseProgram(_, _, _)
ProgramStep(toks, acc, s) ==
    IF ~s.ok THEN s ELSE ParseProgram(toks, s.pos, Append(acc, s.node))
ParseProgram(toks, i, acc) ==
    IF toks[i].kind = "EOF" THEN [ok |-> TRUE, stmts |-> acc]
    ELSE ProgramStep(toks, acc, ParseStatement(toks, i))

\* grammar::ProgramParser::new().parse(db, &source_text)
ProgramParser(text) == ParseProgram(Tokenize(text), 1, <<>>)

(***************************************************************************)
(* Span localization: the Visit/Visitor traversal of ir.rs with the        *)
(* RewriteSpans visitor of parser.rs.                                      *)
(***************************************************************************)
\* usize subtraction; a negative result stands for the underflow
UsizeSub(a, b) == a - b

\* RewriteSpans { db, start_offset, def_id }
RewriteSpans(start_offset, def_id) == [start_offset |-> start_offset, def_id |-> def_id]

\* a variant of visit_span that leaves the offsets absolute
visit_span_absolute(v, span) == [id |-> v.def_id, start |-> span.start, end |-> span.end]

\* impl Visitor for RewriteSpans: visit_span
visit_span(v, span) ==
    [id |-> v.def_id,
     start |-> UsizeSub(span.start, v.start_offset),
     end |-> UsizeSub(span.end, v.start_offset)]

\* impl Visit for Span
Span_traverse(span, v) == visit_span(v, span)

RECURSIVE Expression_traverse(_, _), ExpressionData_traverse(_, _), Vec_traverse(_, _)
\* a variant of Expression_traverse that visits the expression's span twice
Expression_traverse_twice(e, v) ==
    [span |-> visit_span(v, visit_span(v, e.span)), data |-> ExpressionData_traverse(e.data, v)]
\* impl Visit for Expression (visit_expr is the Visitor's empty default)
Expression_traverse(e, v) ==
    [span |-> visit_span(v, e.span), data |-> ExpressionData_traverse(e.data, v)]
\* a variant of ExpressionData_traverse that does not visit a call's arguments
ExpressionData_traverse_shallow(d, v) ==
    CASE d.tag = "Op" ->
           [tag |-> "Op", left |-> Expression_traverse(d.left, v), op |-> d.op,
            right |-> Expression_traverse(d.right, v)]
      [] OTHER -> d
\* impl Visit for ExpressionData
ExpressionData_traverse(d, v) ==
    CASE d.tag = "Op" ->
           [tag |-> "Op", left |-> Expression_traverse(d.left, v), op |-> d.op,
            right |-> Expression_traverse(d.right, v)]
      [] d.tag = "Number" -> d
      [] d.tag = "Variable" -> d
      [] d.tag = "Call" -> [tag |-> "Call", name |-> d.name, args |-> Vec_traverse(d.args, v)]
\* impl<T: Visit> Visit for Vec<T>
Vec_traverse(xs, v) == [i \in 1..Len(xs) |-> Expression_traverse(xs[i], v)]

\* impl Visit for FunctionData
FunctionData_traverse(data, v) ==
    [name_span |-> Span_traverse(data.name_span, v),
     args |-> data.args,
     body |-> Expression_traverse(data.body, v)]

(***************************************************************************)
(* parse_statements.                                                       *)
(***************************************************************************)
\* Diagnostic { start, end, message }
Diagnostic(start, end, message) == [start |-> start, end |-> end, message |-> message]

\* format!("{err}") of the grammar engine's error
FormatError(err) ==
    CASE err.kind = "InvalidToken" -> "Invalid token at " \o ToString(err.start)
      [] err.kind = "UnrecognizedEof" -> "Unrecognized EOF found at " \o ToString(err.start)
      [] err.kind = "UnrecognizedToken" ->
           "Unrecognized token found at " \o ToString(err.start) \o ":" \o ToString(err.end)
\* whether a message is one FormatError writes
IsSyntaxMessage(message, len) ==
    \E k \in {"InvalidToken", "UnrecognizedEof", "UnrecognizedToken"}, s \in 0..len, e \in 0..len :
        message = FormatError([kind |-> k, start |-> s, end |-> e])

\* Function::new(db, name, data)
Function(name, data) == [name |-> name, data |-> data]

\* the closure of the flat_map over the statements
LocalizedFunction(x) ==
    IF x.data.tag = "Function"
    THEN <<Function(x.data.name,
                    FunctionData_traverse(x.data.data,
                                          RewriteSpans(x.span.start, DefIdFunction(x.data.name))))>>
    ELSE <<>>
\* a variant of flat_map that keeps the first definition of a name only
RECURSIVE flat_map_first(_)
flat_map_first(stmts) ==
    IF stmts = <<>> THEN <<>>
    ELSE flat_map_first(SubSeq(stmts, 1, Len(stmts) - 1))
         \o (IF \E h \in 1..(Len(stmts) - 1) :
                   /\ stmts[h].data.tag = "Function"
                   /\ stmts[Len(stmts)].data.tag = "Function"
                   /\ stmts[h].data.name = stmts[Len(stmts)].data.name
             THEN <<>> ELSE LocalizedFunction(stmts[Len(stmts)]))
RECURSIVE flat_map(_)
flat_map(stmts) ==
    IF stmts = <<>> THEN <<>> ELSE LocalizedFunction(Head(stmts)) \o flat_map(Tail(stmts))

\* Program::new(db, functions)
Program(functions) == [functions |-> functions]

\* a variant of parse_statements_match that pushes nothing for an error
parse_statements_match_silent(r) ==
    IF r.ok
    THEN [program |-> Program(flat_map(r.stmts)), diagnostics |-> <<>>]
    ELSE [program |-> Program(<<>>), diagnostics |-> <<>>]

\* a variant of parse_statements_match that pushes a Diagnostic for every
\* statement it drops
parse_statements_match_dropped(r) ==
    IF r.ok
    THEN [program |-> Program(flat_map(r.stmts)),
          diagnostics |-> [n \in 1..(Len(r.stmts) - Len(flat_map(r.stmts))) |->
                              Diagnostic(0, 0, "statement dropped")]]
    ELSE [program |-> Program(<<>>),
          diagnostics |-> <<Diagnostic(0, 0, FormatError(r.error))>>]

\* the two arms of the match on the grammar engine's result: the value of
\* parse_statements and the Diagnostics it pushes
parse_statements_match(r) ==
    IF r.ok
    THEN [program |-> Program(flat_map(r.stmts)), diagnostics |-> <<>>]
    ELSE [program |-> Program(<<>>),
          diagnostics |-> <<Diagnostic(0, 0, FormatError(r.error))>>]

\* a variant of parse_statements that keeps, for a text that fails to
\* parse, the Functions of its longest prefix that parses
RECURSIVE ParsedPrefix(_, _)
ParsedPrefix(source_text, r) ==
    IF r.ok THEN r
    ELSE ParsedPrefix(SubSeq(source_text, 1, Len(source_text) - 1),
                      ProgramParser(SubSeq(source_text, 1, Len(source_text) - 1)))
parse_statements_partial(source_text) ==
    [program |-> parse_statements_match(ParsedPrefix(source_text, ProgramParser(source_text))).program,
     diagnostics |-> parse_statements_match(ProgramParser(source_text)).diagnostics]

\* one execution of parse_statements on source.text(db)
parse_statements(source_text) == parse_statements_match(ProgramParser(source_text))

(***************************************************************************)
(* The name and arity checks.                                              *)
(***************************************************************************)
\* the identity of the i-th tracked Function: its #[id] name and how many
\* Functions of that name the same execution created before it
FunctionKey(fs, i) == <<fs[i].name, Cardinality({j \in 1..(i - 1) : fs[j].name = fs[i].name})>>
FunctionKeys(fs) == [i \in 1..Len(fs) |-> FunctionKey(fs, i)]
IndexOfKey(fs, key) == CHOOSE i \in 1..Len(fs) : FunctionKey(fs, i) = key

\* a variant of find_function that returns the last Function of that name
find_function_last(program, name) ==
    IF \A i \in 1..Len(program.functions) : program.functions[i].name # name THEN None
    ELSE FunctionKey(program.functions,
                     CHOOSE i \in 1..Len(program.functions) :
                        /\ program.functions[i].name = name
                        /\ \A j \in (i + 1)..Len(program.functions) :
                              program.functions[j].name # name)

\* find_function(db, program, name): the first Function of that name
find_function(program, name) ==
    IF \A i \in 1..Len(program.functions) : program.functions[i].name # name THEN None
    ELSE FunctionKey(program.functions,
                     CHOOSE i \in 1..Len(program.functions) :
                        /\ program.functions[i].name = name
                        /\ \A j \in 1..(i - 1) : program.functions[j].name # name)

\* the Diagnostic of a call, given what find_function returned
CallDiagnostics(program, e, found) ==
    IF found = None
    THEN <<Diagnostic(e.span.start, e.span.end, "undefined function")>>
    ELSE IF Len(program.functions[IndexOfKey(program.functions, found)].data.args) # Len(e.data.args)
    THEN <<Diagnostic(e.span.start, e.span.end, "arity mismatch")>>
    ELSE <<>>

RECURSIVE CheckExpression(_, _, _), CheckAll(_, _, _)
CheckExpression(program, args, e) ==
    CASE e.data.tag = "Number" -> <<>>
      [] e.data.tag = "Variable" ->
           IF \E i \in 1..Len(args) : args[i] = e.data.name THEN <<>>
           ELSE <<Diagnostic(e.span.start, e.span.end, "undefined variable")>>
      [] e.data.tag = "Op" ->
           CheckAll(program, args, <<e.data.left, e.data.right>>)
      [] e.data.tag = "Call" ->
           CallDiagnostics(program, e, find_function(program, e.data.name))
           \o CheckAll(program, args, e.data.args)
CheckAll(program, args, es) ==
    IF es = <<>> THEN <<>>
    ELSE CheckExpression(program, args, Head(es)) \o CheckAll(program, args, Tail(es))
CheckerMessages == {"undefined variable", "undefined function", "arity mismatch"}

\* the Diagnostics pushed by one execution of type_check_function
type_check_function(program, function) ==
    CheckExpression(program, function.data.args, function.data.body)

\* the names an execution of type_check_function looks up with find_function
RECURSIVE Calls(_), CallsAll(_)
Calls(e) ==
    CASE e.data.tag = "Op" -> CallsAll(<<e.data.left, e.data.right>>)
      [] e.data.tag = "Call" -> {e.data.name} \cup CallsAll(e.data.args)
      [] OTHER -> {}
CallsAll(es) == IF es = <<>> THEN {} ELSE Calls(Head(es)) \cup CallsAll(Tail(es))

(***************************************************************************)
(* The query database.  A memo is kept for each tracked query that the     *)
(* last compile reached; the memos of Functions that a new execution of    *)
(* parse_statements no longer creates are dropped with them.               *)
(*   parse   : <<>> or <<the value and Diagnostics of parse_statements>>   *)
(*   check   : Function identity -> the names type_check_function looked   *)
(*             up and the Diagnostics it pushed                            *)
(*   find    : name -> the value of find_function(program, name)           *)
(*   program : whether type_check_program has a memo                       *)
(*   compile : whether compile has a memo                                  *)
(***************************************************************************)
EmptyDb == [parse |-> <<>>, check |-> <<>>, find |-> <<>>, program |-> FALSE, compile |-> FALSE]

Event(query, key) == [query |-> query, key |-> key]
Range(seq) == {seq[i] : i \in 1..Len(seq)}

\* a variant of FunctionDataEq that does not compare the bodies
FunctionDataEqHeader(a, b) == a.name_span = b.name_span /\ a.args = b.args

\* derive(Eq, PartialEq) of FunctionData: whether a re-created Function's
\* data field compares equal to the one it had
FunctionDataEq(a, b) == a.name_span = b.name_span /\ a.args = b.args /\ a.body = b.body

RECURSIVE ConcatAll(_)
ConcatAll(seqs) == IF seqs = <<>> THEN <<>> ELSE Head(seqs) \o ConcatAll(Tail(seqs))

\* a variant of RunParse that executes parse_statements at every fetch
RunParseAlways(db, changed) == TRUE

\* whether the memo of parse_statements has to be executed again: there is
\* none, or source.text was set after it was last verified
RunParse(db, changed) == db.parse = <<>> \/ changed

\* the Functions the memo of parse_statements created
OldFunctions(db) == IF db.parse = <<>> THEN <<>> ELSE db.parse[1].program.functions

\* Program.functions holds other Functions than before
FunctionsChanged(db, parse) ==
    FunctionKeys(parse.program.functions) # FunctionKeys(OldFunctions(db))

\* the data field of the Function is new or compares unequal to the old one
DataChanged(db, parse, key) ==
    \/ key \notin Range(FunctionKeys(OldFunctions(db)))
    \/ ~FunctionDataEq(OldFunctions(db)[IndexOfKey(OldFunctions(db), key)].data,
                       parse.program.functions[IndexOfKey(parse.program.functions, key)].data)

\* the memo of find_function(program, name) is missing or holds another value
FindChanged(db, parse, name, found) ==
    \/ name \notin DOMAIN db.find
    \/ db.find[name] # found
    \/ found # None /\ DataChanged(db, parse, found)

\* whether the memo of type_check_function has to be executed again: there
\* is none, or something it read changed: the Function's data, the value of
\* a find_function it called, or the data of the Function that call found
RunCheck(db, parse, key) ==
    \/ key \notin DOMAIN db.check
    \/ DataChanged(db, parse, key)
    \/ \E name \in db.check[key].calls :
          FindChanged(db, parse, name, find_function(parse.program, name))

\* the memo of type_check_function after the fetch
CheckMemo(db, parse, key, function) ==
    IF RunCheck(db, parse, key)
    THEN [calls |-> Calls(function.data.body),
          diagnostics |-> type_check_function(parse.program, function)]
    ELSE db.check[key]

\* whether find_function(program, name) is executed again when it is called
RunFind(db, parse, name) == name \notin DOMAIN db.find \/ FunctionsChanged(db, parse)

\* the queries executed for the i-th Function: type_check_function, and each
\* find_function it is the first to call
ExecutedOf(db, parse, keys, check, i) ==
    (IF RunCheck(db, parse, keys[i]) THEN <<Event("type_check_function", keys[i])>> ELSE <<>>)
    \o ConcatAll([n \in 1..Len(IdentifierOrder) |->
          IF /\ IdentifierOrder[n] \in check[keys[i]].calls
             /\ \A h \in 1..(i - 1) : IdentifierOrder[n] \notin check[keys[h]].calls
             /\ RunFind(db, parse, IdentifierOrder[n])
          THEN <<Event("find_function", <<IdentifierOrder[n]>>)>> ELSE <<>>])

\* the memos after the fetch and the queries it executed
Fetched(db, parse, runParse, keys, check) ==
    [db |-> [parse |-> <<parse>>,
             check |-> check,
             find |-> [name \in UNION {check[key].calls : key \in Range(keys)} |->
                         find_function(parse.program, name)],
             program |-> TRUE,
             compile |-> TRUE],
     runParse |-> runParse,
     executed |->
         (IF ~db.compile THEN <<Event("compile", None)>> ELSE <<>>)
         \o (IF runParse THEN <<Event("parse_statements", None)>> ELSE <<>>)
         \o (IF ~db.program \/ FunctionsChanged(db, parse)
             THEN <<Event("type_check_program", None)>> ELSE <<>>)
         \o ConcatAll([i \in 1..Len(keys) |-> ExecutedOf(db, parse, keys, check, i)])]

Verify(db, parse, runParse, keys) ==
    Fetched(db, parse, runParse, keys,
            [key \in Range(keys) |->
               CheckMemo(db, parse, key,
                         parse.program.functions[IndexOfKey(parse.program.functions, key)])])

Reparsed(db, parse, runParse) ==
    Verify(db, parse, runParse, FunctionKeys(parse.program.functions))

\* One fetch of compile(source): the memos after it and the queries it
\* executed.  changed says that source.text was set after the memos were
\* last verified.
Fetch(db, source_text, changed) ==
    Reparsed(db,
             IF RunParse(db, changed) THEN parse_statements(source_text) ELSE db.parse[1],
             RunParse(db, changed))

(***************************************************************************)
(* The state: main's database and loop, and parse_string's.                *)
(***************************************************************************)
VARIABLES
    filename,     \* the file the text was read from
    text,         \* source_program.text
    changed,      \* text was set after the memos were last verified
    db,           \* the memos
    parsed,       \* what the grammar engine returned to parse_statements last
    diagnostics,  \* the accumulated Diagnostics read last
    logs,         \* the executed queries the database has logged
    compiles,     \* the compile calls since text was last set
    previous,     \* the file of the loop's previous iteration
    pc            \* idle | set | compiled (main), string | parsed (parse_string)

vars == <<filename, text, changed, db, parsed, diagnostics, logs, compiles, previous, pc>>

NotParsed == [ok |-> FALSE, error |-> [kind |-> "NotParsed", start |-> 0, end |-> 0]]

\* compile::accumulated::<Diagnostics>(&db, source_program)
compile_accumulated(d) ==
    d.parse[1].diagnostics
    \o ConcatAll([i \in 1..Len(d.parse[1].program.functions) |->
                    d.check[FunctionKey(d.parse[1].program.functions, i)].diagnostics])

\* parse_statements::accumulated::<Diagnostics>(&db, source_program)
parse_statements_accumulated(d) == d.parse[1].diagnostics

\* main: the database and the input, before the loop
Init ==
    /\ filename = <<>>
    /\ text = <<>>
    /\ changed = FALSE
    /\ db = EmptyDb
    /\ parsed = NotParsed
    /\ diagnostics = <<>>
    /\ logs = <<>>
    /\ compiles = 0
    /\ previous = <<>>
    /\ pc = "idle"

\* main: read the next file and source_program.set_text(&mut db).to(input)
SetText(file) ==
    /\ pc = "idle"
    /\ filename' = file
    /\ text' = Read(file)
    /\ changed' = TRUE
    /\ compiles' = 0
    /\ pc' = "set"
    /\ UNCHANGED <<db, parsed, diagnostics, logs, previous>>

\* main: compile::compile(&db, source_program) and the read of its Diagnostics
Compiled(r) ==
    /\ db' = r.db
    /\ logs' = logs \o r.executed
    /\ diagnostics' = compile_accumulated(r.db)
Compile ==
    /\ pc \in {"set", "compiled"}
    /\ compiles < MaxCompiles
    /\ Compiled(Fetch(db, text, changed))
    /\ parsed' = IF RunParse(db, changed) THEN ProgramParser(text) ELSE parsed
    /\ changed' = FALSE
    /\ compiles' = compiles + 1
    /\ pc' = "compiled"
    /\ UNCHANGED <<filename, text, previous>>

\* main: db.take_logs(), the end of an iteration
TakeLogs ==
    /\ pc = "compiled"
    /\ logs' = <<>>
    /\ previous' = filename
    /\ pc' = "idle"
    /\ UNCHANGED <<filename, text, changed, db, parsed, diagnostics, compiles>>

Next ==
    \/ \E file \in EngineFiles : SetText(file)
    \/ Compile
    \/ TakeLogs

Spec == Init /\ [][Next]_vars

\* parse_string: a new database and a SourceProgram of the text
ParserInit ==
    /\ filename \in ParserFiles
    /\ text = Read(filename)
    /\ changed = FALSE
    /\ db = EmptyDb
    /\ parsed = NotParsed
    /\ diagnostics = <<>>
    /\ logs = <<>>
    /\ compiles = 0
    /\ previous = <<>>
    /\ pc = "string"

\* parse_string: parse_statements(&db, source_program) and the read of its Diagnostics
ParseString ==
    /\ pc = "string"
    /\ db' = [db EXCEPT !.parse = <<parse_statements(text)>>]
    /\ diagnostics' = parse_statements_accumulated(db')
    /\ parsed' = ProgramParser(text)
    /\ pc' = "parsed"
    /\ UNCHANGED <<filename, text, changed, logs, compiles, previous>>

ParserNext == ParseString

ParserSpec == ParserInit /\ [][ParserNext]_vars
\* main run on one file: the state after its set_text
CheckerInit ==
    /\ filename \in CheckerFiles
    /\ text = Read(filename)
    /\ changed = TRUE
    /\ db = EmptyDb
    /\ parsed = NotParsed
    /\ diagnostics = <<>>
    /\ logs = <<>>
    /\ compiles = 0
    /\ previous = <<>>
    /\ pc = "set"
CheckerNext == Compile
CheckerSpec == CheckerInit /\ [][CheckerNext]_vars

(***************************************************************************)
(* What the files say, read off their lexemes and not off the parse.       *)
(***************************************************************************)
BadStatements == {PrintError, PrintInvalid, PrintEof}
\* the text of the file does not parse
Fails(file) == \E i \in 1..Len(file) : file[i] \in BadStatements
IsFn(stmt) == stmt[1] = "fn"
NameOf(stmt) == stmt[3]
\* the index of the "=" of a function definition
EqualsAt(stmt) == CHOOSE p \in 1..Len(stmt) : stmt[p] = "=" /\ \A q \in 1..(p - 1) : stmt[q] # "="
\* the definition up to its "=": the name and the parameters
HeaderOf(stmt) == SubSeq(stmt, 1, EqualsAt(stmt))
\* the parameter names of the definition
ParamsOf(stmt) == SelectSeq(SubSeq(stmt, 4, EqualsAt(stmt)), LAMBDA l : l \in Identifiers)
\* the body of the definition calls the name
CallsName(stmt, name) ==
    \E p \in (EqualsAt(stmt) + 1)..(Len(stmt) - 1) : stmt[p] = name /\ stmt[p + 1] = "("
\* the function definitions of a file, in source order
FnStatements(file) == SelectSeq(file, IsFn)
\* the identity of the Function of statement j
KeyOfStatement(file, j) ==
    <<NameOf(file[j]),
      Cardinality({h \in 1..(j - 1) : IsFn(file[h]) /\ NameOf(file[h]) = NameOf(file[j])})>>
\* t is s with the body of the function of statement i replaced
BodyEdit(s, t, i) ==
    /\ ~Fails(s) /\ ~Fails(t)
    /\ Len(s) = Len(t)
    /\ i \in 1..Len(t)
    /\ IsFn(s[i]) /\ IsFn(t[i])
    /\ HeaderOf(s[i]) = HeaderOf(t[i])
    /\ s[i] # t[i]
    /\ \A j \in 1..Len(t) : j # i => s[j] = t[j]

TheFunctions == db.parse[1].program.functions

(***************************************************************************)
(* C1.  When parse_statements fails to parse the text, its one Diagnostic  *)
(* starts at the byte offset of the first unexpected token, ends one byte  *)
(* later and says "unexpected character".  The code pushes start 0, end 0  *)
(* and the formatted error instead, so this is violated.                   *)
(***************************************************************************)
C1_ErrorAnchoredAtToken ==
    (pc = "parsed" /\ Fails(filename)) =>
        diagnostics = <<Diagnostic(parsed.error.start, parsed.error.start + 1,
                                   "unexpected character")>>

(***************************************************************************)
(* C2.  For every text that fails to parse, parse_statements returns a     *)
(* Program with no Function, also none defined before the error, and       *)
(* accumulates exactly one Diagnostic.                                     *)
(***************************************************************************)
C2_FailedParseIsEmpty ==
    (pc = "parsed" /\ Fails(filename)) =>
        /\ ~parsed.ok
        /\ TheFunctions = <<>>
        /\ Len(diagnostics) = 1
C2_Witness ==
    /\ pc = "parsed"
    /\ filename = <<FnF, FnG, PrintError>>
    /\ Len(diagnostics) = 1

(***************************************************************************)
(* C3.  Dependency isolation: when the text compiled last is replaced by   *)
(* one in which only the body of one function differs, the next compile    *)
(* does not execute type_check_function for a function whose definition    *)
(* text is unchanged and which does not call the edited function, wherever *)
(* the edited function stands; its Diagnostics are those of its memo.      *)
(***************************************************************************)
C3_DependencyIsolation ==
    pc = "compiled" =>
        \A i, j \in 1..Len(filename) :
            (/\ BodyEdit(previous, filename, i)
             /\ j # i
             /\ IsFn(filename[j])
             /\ ~CallsName(filename[j], NameOf(filename[i])))
            => /\ Event("type_check_function", KeyOfStatement(filename, j)) \notin Range(logs)
               /\ KeyOfStatement(filename, j) \in DOMAIN db.check
C3_Witness ==
    /\ pc = "compiled"
    /\ previous = <<FnF, FnH>>
    /\ filename = <<FnFEdited, FnH>>
    /\ Event("type_check_function", <<"f", 0>>) \in Range(logs)
    /\ Event("type_check_function", <<"h", 0>>) \notin Range(logs)

(***************************************************************************)
(* C4.  Idempotence: a compile that follows a compile with no set_text in  *)
(* between executes no query (the log does not grow) and the Diagnostics   *)
(* read after it are, element for element, those read after the first.     *)
(***************************************************************************)
C4_Idempotence ==
    [][(compiles' = compiles + 1 /\ compiles >= 1)
          => (logs' = logs /\ diagnostics' = diagnostics)]_vars
C4_Witness ==
    /\ pc = "compiled"
    /\ compiles = 2
    /\ filename = <<FnFEdited, FnG>>
    /\ Len(diagnostics) = 2
    /\ Event("parse_statements", None) \in Range(logs)

(***************************************************************************)
(* C5.  Span relativity: a function definition has the same FunctionData   *)
(* whatever text stands before it: the data of every Function of a text    *)
(* that parses is the data of its definition parsed alone, and its         *)
(* name_span is measured from the start of the definition.                 *)
(***************************************************************************)
StandaloneData(stmt) == parse_statements(Read(<<stmt>>)).program.functions[1].data
C5_SpanRelativity ==
    (pc = "parsed" /\ ~Fails(filename)) =>
        /\ Len(TheFunctions) = Len(FnStatements(filename))
        /\ \A k \in 1..Len(TheFunctions) :
              /\ TheFunctions[k].data = StandaloneData(FnStatements(filename)[k])
              /\ TheFunctions[k].data.name_span =
                    Span(DefIdFunction(TheFunctions[k].name), 3, 3 + Len(TheFunctions[k].name))
C5_Witness ==
    /\ pc = "parsed"
    /\ filename = <<PrintPrecedence, FnFEdited, FnG>>
    /\ Len(TheFunctions) = 2
    /\ TheFunctions[2].data.body.span.start = 9

(***************************************************************************)
(* C6.  Every Diagnostic the driver reads from compile is in the absolute  *)
(* coordinates of the text: one pushed by the check of a function at the   *)
(* function-relative range [s, e) is read as [s + F, e + F), F being the   *)
(* absolute start of the function.  The code keeps no F and main prints    *)
(* the Diagnostics as they were pushed, so this is violated.               *)
(***************************************************************************)
Translated(ds, offset) ==
    [n \in 1..Len(ds) |-> Diagnostic(ds[n].start + offset, ds[n].end + offset, ds[n].message)]
\* the index in the file of its k-th function definition
StatementOfFunction(file, k) ==
    CHOOSE j \in 1..Len(file) :
        IsFn(file[j]) /\ Cardinality({h \in 1..j : IsFn(file[h])}) = k
C6_DiagnosticsAbsolute ==
    (pc = "compiled" /\ ~Fails(filename)) =>
        diagnostics =
            ConcatAll([k \in 1..Len(TheFunctions) |->
                Translated(type_check_function(db.parse[1].program, TheFunctions[k]),
                           StatementOffset(filename, StatementOfFunction(filename, k)))])

(***************************************************************************)
(* C7.  After any sequence of set_text and compile, the Diagnostics read   *)
(* for compile are exactly those of the current text: what one execution   *)
(* of parse_statements and of type_check_function for each Function of the *)
(* current text pushes, none left from an earlier text, none twice.        *)
(***************************************************************************)
FreshDiagnosticsOf(parse) ==
    parse.diagnostics
    \o ConcatAll([k \in 1..Len(parse.program.functions) |->
                    type_check_function(parse.program, parse.program.functions[k])])
FreshDiagnostics(source_text) == FreshDiagnosticsOf(parse_statements(source_text))
C7_DiagnosticsOfCurrentText ==
    pc = "compiled" => diagnostics = FreshDiagnostics(text)
C7_Witness ==
    /\ pc = "compiled"
    /\ previous = <<FnFEdited, FnG>>
    /\ filename = <<FnF, FnH>>
    /\ diagnostics = <<Diagnostic(9, 12, "undefined function")>>

(***************************************************************************)
(* C8.  Within one compilation the syntax Diagnostic excludes the checker  *)
(* Diagnostics: if the Diagnostics read for compile hold the syntax error, *)
(* they hold no undefined-variable, undefined-function or arity-mismatch   *)
(* Diagnostic, and the Program has no Function.                            *)
(***************************************************************************)
C8_SyntaxExcludesChecker ==
    (/\ pc = "compiled"
     /\ \E n \in 1..Len(diagnostics) : diagnostics[n] \in Range(parse_statements_accumulated(db)))
    => /\ \A n \in 1..Len(diagnostics) : diagnostics[n].message \notin CheckerMessages
       /\ TheFunctions = <<>>
       /\ \A n \in 1..Len(logs) : logs[n].query \notin {"type_check_function", "find_function"}
C8_Witness ==
    /\ pc = "compiled"
    /\ filename = <<FnFEdited, PrintError>>
    /\ Len(diagnostics) = 1
    /\ IsSyntaxMessage(diagnostics[1].message, TextLen(text))

Additive == {"Add", "Subtract"}
LevelOf(op) == IF op \in Additive THEN "additive" ELSE "multiplicative"
SymbolOf(op) ==
    CASE op = "Add" -> "+" [] op = "Subtract" -> "-" [] op = "Multiply" -> "*" [] op = "Divide" -> "/"
IsOp(e) == e.data.tag = "Op"
RECURSIVE InOrder(_), WellGrouped(_), Show(_)
\* the operand and operator lexemes of an expression, left to right
InOrder(e) ==
    IF IsOp(e) THEN InOrder(e.data.left) \o <<SymbolOf(e.data.op)>> \o InOrder(e.data.right)
    ELSE <<NumberLexemes[e.data.value]>>
WellGrouped(e) ==
    IsOp(e) =>
        /\ WellGrouped(e.data.left)
        /\ WellGrouped(e.data.right)
        /\ IsOp(e.data.right) => LevelOf(e.data.right.data.op) # LevelOf(e.data.op)
        /\ \A c \in {e.data.left, e.data.right} :
              (IsOp(c) /\ e.data.op \notin Additive) => c.data.op \notin Additive
\* the expression with every operation in parentheses
Show(e) ==
    IF IsOp(e)
    THEN "(" \o Show(e.data.left) \o " " \o SymbolOf(e.data.op) \o " " \o Show(e.data.right) \o ")"
    ELSE NumberLexemes[e.data.value]
\* the lexemes of the expression of a print statement
ExpressionLexemes(stmt) ==
    SelectSeq(SubSeq(stmt, 2, Len(stmt) - 1), LAMBDA l : l # " ")
C10_PrecedenceAndAssociativity ==
    (pc = "parsed" /\ filename \in ExpressionFiles) =>
        /\ parsed.ok
        /\ Len(parsed.stmts) = 1
        /\ parsed.stmts[1].data.tag = "Print"
        /\ InOrder(parsed.stmts[1].data.expr) = ExpressionLexemes(filename[1])
        /\ WellGrouped(parsed.stmts[1].data.expr)
        /\ filename = <<PrintPrecedence>> =>
              Show(parsed.stmts[1].data.expr) = "((1 + (2 * 3)) + 4)"
C10_Witness ==
    /\ pc = "parsed"
    /\ filename = <<PrintPrecedence>>
    /\ parsed.ok
    /\ parsed.stmts[1].data.expr.data.op = "Add"
    /\ parsed.stmts[1].data.expr.data.left.data.right.data.op = "Multiply"
(***************************************************************************)
(* C11.  For every Call(f, args) in a function body, at any depth,         *)
(* type_check_function pushes an undefined-function Diagnostic at the      *)
(* call's span iff the Program has no Function named f, and an             *)
(* arity-mismatch Diagnostic at the call's span iff it has one and the     *)
(* first one declares another number of arguments than the call has; each  *)
(* is pushed once, and in all three cases the arguments are checked: every *)
(* variable in them that is no parameter has its undefined-variable        *)
(* Diagnostic.                                                             *)
(***************************************************************************)
RECURSIVE Nodes(_)
\* the expression nodes of an expression, itself included
Nodes(e) ==
    {e} \cup
    (CASE e.data.tag = "Op" -> Nodes(e.data.left) \cup Nodes(e.data.right)
       [] e.data.tag = "Call" -> UNION {Nodes(e.data.args[n]) : n \in 1..Len(e.data.args)}
       [] OTHER -> {})
CallNodes(e) == {c \in Nodes(e) : c.data.tag = "Call"}
\* the nodes of the arguments of the calls of an expression
ArgumentNodes(e) ==
    UNION {UNION {Nodes(c.data.args[n]) : n \in 1..Len(c.data.args)} : c \in CallNodes(e)}
Defines(fs, name) == \E i \in 1..Len(fs) : fs[i].name = name
\* the declared argument count of the first Function of that name
FirstArity(fs, name) ==
    Len(fs[CHOOSE i \in 1..Len(fs) :
              fs[i].name = name /\ \A j \in 1..(i - 1) : fs[j].name # name].data.args)
At(e, message) == Diagnostic(e.span.start, e.span.end, message)
Count(ds, message) == Cardinality({n \in 1..Len(ds) : ds[n].message = message})
\* what C11 says of the Diagnostics ds pushed for the function f of fs
CallsChecked(fs, f, ds) ==
    /\ \A c \in CallNodes(f.data.body) :
          /\ At(c, "undefined function") \in Range(ds) <=> ~Defines(fs, c.data.name)
          /\ At(c, "arity mismatch") \in Range(ds)
                <=> (Defines(fs, c.data.name) /\ FirstArity(fs, c.data.name) # Len(c.data.args))
    /\ Count(ds, "undefined function")
          = Cardinality({c \in CallNodes(f.data.body) : ~Defines(fs, c.data.name)})
    /\ Count(ds, "arity mismatch")
          = Cardinality({c \in CallNodes(f.data.body) :
                            Defines(fs, c.data.name) /\ FirstArity(fs, c.data.name) # Len(c.data.args)})
    /\ \A a \in ArgumentNodes(f.data.body) :
          (a.data.tag = "Variable" /\ a.data.name \notin Range(f.data.args))
             => At(a, "undefined variable") \in Range(ds)
C11_CallsChecked ==
    pc = "compiled" =>
        \A k \in 1..Len(TheFunctions) :
            CallsChecked(TheFunctions, TheFunctions[k],
                         db.check[FunctionKey(TheFunctions, k)].diagnostics)
\* k(f(x), y) after f() and f(x): k is undefined, f(x) is checked against f()
C11_Witness ==
    /\ pc = "compiled"
    /\ filename = <<FnFRecursive, FnF, FnHNested>>
    /\ db.check[<<"h", 0>>].diagnostics =
          <<Diagnostic(10, 20, "undefined function"),
            Diagnostic(12, 16, "arity mismatch"),
            Diagnostic(18, 19, "undefined variable")>>
(***************************************************************************)
(* C12.  For every text that parses, be it of print statements, of         *)
(* function definitions or of both, parse_statements accumulates no        *)
(* Diagnostic.                                                             *)
(***************************************************************************)
C12_ParsedTextHasNoDiagnostic ==
    (pc = "parsed" /\ (parsed.ok \/ ~Fails(filename))) =>
        /\ parsed.ok
        /\ parse_statements_accumulated(db) = <<>>
        /\ diagnostics = <<>>
C12_Witness ==
    /\ pc = "parsed"
    /\ filename = <<PrintPrecedence, FnG, PrintPrecedence>>
    /\ Len(parsed.stmts) = 3
    /\ Len(TheFunctions) = 1
    /\ diagnostics = <<>>

(***************************************************************************)
(* C13.  Span localization rewrites every span of a function definition    *)
(* exactly once: for a definition that starts at offset S, the name_span   *)
(* and the span of every expression node of the body, operands and call    *)
(* arguments at any depth, have the id of the function's DefId, the start  *)
(* and end the grammar gave less S, no subtraction below zero, and         *)
(* start <= end; nothing else of the FunctionData is changed.              *)
(***************************************************************************)
SpanRewritten(old, new, S, id) ==
    /\ new.id = id
    /\ new.start = old.start - S
    /\ new.end = old.end - S
    /\ new.start >= 0
    /\ new.start <= new.end
RECURSIVE Rewritten(_, _, _, _)
\* new is the expression old with every span rewritten
Rewritten(old, new, S, id) ==
    /\ SpanRewritten(old.span, new.span, S, id)
    /\ new.data.tag = old.data.tag
    /\ CASE old.data.tag = "Op" ->
              /\ new.data.op = old.data.op
              /\ Rewritten(old.data.left, new.data.left, S, id)
              /\ Rewritten(old.data.right, new.data.right, S, id)
         [] old.data.tag = "Call" ->
              /\ new.data.name = old.data.name
              /\ Len(new.data.args) = Len(old.data.args)
              /\ \A n \in 1..Len(old.data.args) :
                    Rewritten(old.data.args[n], new.data.args[n], S, id)
         [] OTHER -> new.data = old.data
\* f is the Function of the statement x as the grammar returned it
FunctionRewritten(x, f) ==
    /\ f.name = x.data.name
    /\ f.data.args = x.data.data.args
    /\ SpanRewritten(x.data.data.name_span, f.data.name_span, x.span.start, DefIdFunction(x.data.name))
    /\ Rewritten(x.data.data.body, f.data.body, x.span.start, DefIdFunction(x.data.name))
IsFunctionStatement(x) == x.data.tag = "Function"
C13_EverySpanRewrittenOnce ==
    (pc = "parsed" /\ parsed.ok) =>
        /\ Len(TheFunctions) = Len(SelectSeq(parsed.stmts, IsFunctionStatement))
        /\ \A k \in 1..Len(TheFunctions) :
              FunctionRewritten(SelectSeq(parsed.stmts, IsFunctionStatement)[k], TheFunctions[k])
\* h stands at offset 34; the argument x of f in k(f(x), y) at 48 of the text
C13_Witness ==
    /\ pc = "parsed"
    /\ filename = <<PrintPrecedence, FnF, FnHNested>>
    /\ parsed.stmts[3].span.start = 34
    /\ parsed.stmts[3].data.data.body.data.args[1].data.args[1].span.start = 48
    /\ TheFunctions[2].data.body.data.args[1].data.args[1].span
          = Span(DefIdFunction("h"), 14, 15)
=============================================================================
